---- MODULE Spec2Model ----
(***************************************************************************)
(* Model of the builder-backend websocket service: the Hub and its rooms,  *)
(* the connections served by ServeWebsocket, the recoverSnapshot handler   *)
(* and the release-by-copy of KVState rows.                                *)
(***************************************************************************)
EXTENDS Integers, Sequences, FiniteSets, TLC

\* ---------------------------------------------------------------- bounds
SendCap == 2               \* capacity K of a connection's outbound queue
MaxChan == 2               \* commands waiting on the Hub's channel
MaxMsgs == SendCap + 2     \* messages ever submitted: K + 1 overflow a queue, one more follows

MaxReqs == 2               \* requests to the recoverSnapshot endpoint
MaxRows == 2               \* KVState rows the clients create

Conns == {1, 2}            \* the connection objects the service creates
Msgs == 1..MaxMsgs
TeamIDs == {1}
AppIDs == {1, 2}
HubAppIDs == {1}             \* the application whose rooms the Hub runs are about
CLIENT_TYPE_TEXT == "text"
CLIENT_TYPE_BINARY == "binary"
ClientTypes == {CLIENT_TYPE_TEXT, CLIENT_TYPE_BINARY}
RoomKeys == TeamIDs \X AppIDs \X ClientTypes
NoClient == [teamID |-> 0, appID |-> 0, clientType |-> "none"]

\* the KVState store
KVApps == {1, 2}
Procs == {1, 2}                 \* the requests that release an application
KVKeys == {"k1", "k2"}
KVValues == {"v1"}
KVStateTypes == {1}
APP_EDIT_VERSION == 0
NoApp == [ID |-> 0, MainlineVersion |-> 0]
IdleRelease == [pc |-> "idle", app |-> NoApp, kvstates |-> <<>>, err |-> "none"]
NoCreate == [version |-> 0, stored |-> 0]

\* the TreeState store
MaxNodes == 3                   \* TreeState rows ever created
NodeIDs == 1..MaxNodes
TreeApps == {1}
TreeStateTypes == {1}
TreeVersions == {APP_EDIT_VERSION, 4}
TreeNames == {"root"}
NoTreeOp == [op |-> "none", cyclic |-> FALSE, changed |-> FALSE, err |-> "none"]

\* the recoverSnapshot endpoint and its collaborators
Methods == {"POST", "OPTIONS"}
TeamPaths == {"ILAfx4p1C7d0"}                  \* {teamID} of the request path
AppPaths == {"ILAex4p1C7d1", "ILAex4p1C7d2"}   \* {appID} of the request path
Tokens == {"token-alice", "token-stale"}       \* Authorization header values
ValidTokens == {"token-alice"}                 \* the tokens of user accounts
DEFAULT_UNIT_ID == 0
UNIT_TYPE_APP == "app"
ACTION_MANAGE_EDIT_APP == "manage-edit-app"
Units == {DEFAULT_UNIT_ID} \cup AppIDs
OkBody == "{\"ok\":true}"
NoReq ==
    [n |-> 0, method |-> "none", teamID |-> 0, appID |-> 0, token |-> "none",
     path |-> "none", held |-> FALSE, sent |-> FALSE, status |-> 0, body |-> ""]

VARIABLES
    clients,      \* connection -> the Client object NewClient built (or NoClient)
    cstate,       \* connection -> None | Failed | Active | Closing | Closed
    pumps,        \* connection -> the loops still running, a subset of {read, write}
    unregDone,    \* connections whose removal the Hub has processed
    hubChan,      \* the commands submitted to the Hub and not yet processed
    rooms,        \* room key -> the connections registered in the room
    send,         \* connection -> its outbound queue
    nextMsg,      \* identity of the next message
    nSubmitted,   \* history: number of commands submitted to the Hub
    nProcessed,   \* history: number of commands the Hub has processed
    nBroadcast,   \* history: number of broadcasts the Hub has processed
    regHist,      \* history: connection -> its Register/Unregister commands, as processed
    procOrder,    \* history: message -> its rank among the processed broadcasts (0: not yet)
    droppedAt,    \* history: connection -> rank of the broadcast that dropped it (0: none)
    lastCmd,      \* history: the command the Hub processed last
    lastTo,       \* history: the connections the last fan-out enqueued to
    grants,       \* access control: who holds manage-edit-app on which unit
    lastReq,      \* history: the last recoverSnapshot request and its response
    kvTable,      \* the rows of the KVState table, in insertion order
    nextSerial,   \* the next value of the table's bigserial id
    pkEnforced,   \* whether the table rejects a second row with the same id
    mainline,     \* application -> its mainline version
    rel,          \* release request -> its position in ReleaseKVStateByApp
    retrieved,    \* history: release -> the edit-version rows it read
    created,      \* history: release -> the rows it inserted
    before,       \* history: release -> the mainline version it found
    injected,     \* history: releases the store failed for a reason of its own
    concurrent,   \* history: a release started while another of the application ran
    lastCreate,   \* history: the last CreateKVState that stored a row
    treeTable,    \* the rows of the TreeState table
    treeSerial,   \* the next value of that table's bigserial id
    lastTree,     \* history: the last operation on the TreeState table
    servePc       \* connection -> the position of its ServeWebsocket call

hubVars == <<clients, cstate, pumps, unregDone, hubChan, rooms, send, nextMsg,
             nSubmitted, nProcessed, nBroadcast, regHist, procOrder, droppedAt,
             lastCmd, lastTo>>

recoverVars == <<grants, lastReq>>

kvVars == <<kvTable, nextSerial, pkEnforced, mainline, rel, retrieved, created,
            before, injected, concurrent, lastCreate>>

treeVars == <<treeTable, treeSerial, lastTree>>

serveVars == <<servePc>>

vars == <<hubVars, recoverVars, kvVars, treeVars, serveVars>>

\* --------------------------------------------------------------- helpers
\* a command on the Hub's channel; seq is its rank in submission order
Cmd(op, c, team, app, class, msg, exclude) ==
    [op |-> op, c |-> c, team |-> team, app |-> app, class |-> class, msg |-> msg,
     exclude |-> exclude, seq |-> nSubmitted + 1]

NoCmd ==
    [op |-> "none", c |-> 0, team |-> 0, app |-> 0, class |-> "none", msg |-> 0,
     exclude |-> {}, seq |-> 0]

\* the room of a client, under the class of the channel it registered on
RoomOf(c, class) == <<clients[c].teamID, clients[c].appID, class>>

\* mutant: Closed as soon as both loops have exited
SettledEarly(st, running, done) ==
    IF st = "Closing" /\ running = {} THEN "Closed" ELSE st

\* Connecting -> Active -> Closing -> Closed: Closed once both loops have
\* exited and the Hub has processed the unregistration
Settled(st, running, done) ==
    IF st = "Closing" /\ running = {} /\ done THEN "Closed" ELSE st

\* submission of a command on the Hub's channel
Submit(cmd) ==
    /\ Len(hubChan) < MaxChan
    /\ hubChan' = Append(hubChan, cmd)
    /\ nSubmitted' = nSubmitted + 1

\* ------------------------------------------------------------------ Init
HubInit ==
    /\ clients = [c \in Conns |-> NoClient]
    /\ cstate = [c \in Conns |-> "None"]
    /\ pumps = [c \in Conns |-> {}]
    /\ unregDone = {}
    /\ hubChan = <<>>
    /\ rooms = [k \in RoomKeys |-> {}]
    /\ send = [c \in Conns |-> <<>>]
    /\ nextMsg = 1
    /\ nSubmitted = 0
    /\ nProcessed = 0
    /\ nBroadcast = 0
    /\ regHist = [c \in Conns |-> <<>>]
    /\ procOrder = [m \in Msgs |-> 0]
    /\ droppedAt = [c \in Conns |-> 0]
    /\ lastCmd = NoCmd
    /\ lastTo = {}

RecoverInit ==
    /\ grants = {}
    /\ lastReq = NoReq

KVInit ==
    /\ kvTable = <<>>
    /\ nextSerial = 1
    /\ pkEnforced \in BOOLEAN
    /\ mainline = [a \in KVApps |-> 3]
    /\ rel = [p \in Procs |-> IdleRelease]
    /\ retrieved = [p \in Procs |-> <<>>]
    /\ created = [p \in Procs |-> <<>>]
    /\ before = [p \in Procs |-> 0]
    /\ injected = {}
    /\ concurrent = FALSE
    /\ lastCreate = NoCreate

TreeInit ==
    /\ treeTable = {}
    /\ treeSerial = 1
    /\ lastTree = NoTreeOp

ServeInit == servePc = [c \in Conns |-> "none"]

Init == HubInit /\ RecoverInit /\ KVInit /\ TreeInit /\ ServeInit

\* -------------------------------------------------------- ServeWebsocket
\* the handler with the client registered on `channel`
ServeOn(c, teamID, appID, clientType, upgraded, channel) ==
    /\ UNCHANGED <<recoverVars, kvVars, treeVars, serveVars>>
    /\ cstate[c] = "None"
    /\ \A d \in Conns : d < c => cstate[d] # "None"
    /\ IF ~upgraded
       THEN /\ cstate' = [cstate EXCEPT ![c] = "Failed"]
            /\ UNCHANGED <<clients, pumps, hubChan, nSubmitted>>
       ELSE /\ clients' = [clients EXCEPT ![c] =
                   [teamID |-> teamID, appID |-> appID, clientType |-> clientType]]
            /\ Submit(Cmd(channel, c, teamID, appID, clientType, 0, {}))
            /\ cstate' = [cstate EXCEPT ![c] = "Active"]
            /\ pumps' = [pumps EXCEPT ![c] = {"read", "write"}]
    /\ UNCHANGED <<unregDone, rooms, send, nextMsg, nProcessed, nBroadcast, regHist,
                   procOrder, droppedAt, lastCmd, lastTo>>

\* mutant: every client is sent on the Register channel, the binary ones too
ServeWebsocketOneChannel(c, teamID, appID, clientType, upgraded) ==
    ServeOn(c, teamID, appID, clientType, upgraded, "Register")

\* upgrade the request, build the client, register it on the channel of its
\* client type and start its two pumps
ServeWebsocket(c, teamID, appID, clientType, upgraded) ==
    ServeOn(c, teamID, appID, clientType, upgraded,
            IF clientType = CLIENT_TYPE_TEXT THEN "Register" ELSE "RegisterBinary")

\* the websocket endpoints of one application
ServeAny ==
    \E c \in Conns, t \in TeamIDs, a \in HubAppIDs, ty \in ClientTypes, up \in BOOLEAN :
        ServeWebsocket(c, t, a, ty, up)

\* ------------------------------------------- ServeWebsocket, step by step
\* the upgrade of the request and NewClient
ServeUpgrade(c, teamID, appID, clientType, upgraded) ==
    /\ servePc[c] = "none"
    /\ cstate[c] = "None"
    /\ \A d \in Conns : d < c => servePc[d] # "none"
    /\ IF ~upgraded
       THEN /\ cstate' = [cstate EXCEPT ![c] = "Failed"]
            /\ servePc' = [servePc EXCEPT ![c] = "returned"]
            /\ UNCHANGED clients
       ELSE /\ clients' = [clients EXCEPT ![c] =
                   [teamID |-> teamID, appID |-> appID, clientType |-> clientType]]
            /\ cstate' = [cstate EXCEPT ![c] = "Active"]
            /\ servePc' = [servePc EXCEPT ![c] = "created"]
    /\ UNCHANGED <<pumps, unregDone, hubChan, rooms, send, nextMsg, nSubmitted,
                   nProcessed, nBroadcast, regHist, procOrder, droppedAt, lastCmd,
                   lastTo, recoverVars, kvVars, treeVars>>

\* the switch on the client type, with the cases it has
ServeSwitch(c, cases) ==
    /\ servePc[c] = "created"
    /\ IF clients[c].clientType \in cases
       THEN Submit(Cmd(IF clients[c].clientType = CLIENT_TYPE_TEXT THEN "Register"
                       ELSE "RegisterBinary",
                       c, clients[c].teamID, clients[c].appID, clients[c].clientType,
                       0, {}))
       ELSE UNCHANGED <<hubChan, nSubmitted>>
    /\ servePc' = [servePc EXCEPT ![c] = "registered"]
    /\ UNCHANGED <<clients, cstate, pumps, unregDone, rooms, send, nextMsg, nProcessed,
                   nBroadcast, regHist, procOrder, droppedAt, lastCmd, lastTo,
                   recoverVars, kvVars, treeVars>>

\* mutant: the switch has no case for the binary clients
ServeRegisterTextOnly(c) == ServeSwitch(c, {CLIENT_TYPE_TEXT})

\* the client is sent on Register or on RegisterBinary, by its client type
ServeRegister(c) == ServeSwitch(c, {CLIENT_TYPE_TEXT, CLIENT_TYPE_BINARY})

\* go client.WritePump()
ServeStartWritePump(c) ==
    /\ servePc[c] = "registered"
    /\ pumps' = [pumps EXCEPT ![c] = @ \cup {"write"}]
    /\ servePc' = [servePc EXCEPT ![c] = "writing"]
    /\ UNCHANGED <<clients, cstate, unregDone, hubChan, rooms, send, nextMsg,
                   nSubmitted, nProcessed, nBroadcast, regHist, procOrder, droppedAt,
                   lastCmd, lastTo, recoverVars, kvVars, treeVars>>

\* go client.ReadPump()
ServeStartReadPump(c) ==
    /\ servePc[c] = "writing"
    /\ pumps' = [pumps EXCEPT ![c] = @ \cup {"read"}]
    /\ servePc' = [servePc EXCEPT ![c] = "done"]
    /\ UNCHANGED <<clients, cstate, unregDone, hubChan, rooms, send, nextMsg,
                   nSubmitted, nProcessed, nBroadcast, regHist, procOrder, droppedAt,
                   lastCmd, lastTo, recoverVars, kvVars, treeVars>>

ServeUpgradeAny ==
    \E c \in Conns, t \in TeamIDs, a \in AppIDs, ty \in ClientTypes, up \in BOOLEAN :
        ServeUpgrade(c, t, a, ty, up)

ServeRegisterAny == \E c \in Conns : ServeRegister(c)
ServeStartWriteAny == \E c \in Conns : ServeStartWritePump(c)
ServeStartReadAny == \E c \in Conns : ServeStartReadPump(c)

\* ------------------------------------------------------------ the pumps
\* the inbound loop decodes a message and the collaboration service asks the
\* Hub to broadcast it to the sender's room, the sender excluded or not
ReadPumpMessage(c, exclude) ==
    /\ UNCHANGED <<recoverVars, kvVars, treeVars, serveVars>>
    /\ "read" \in pumps[c]
    /\ nextMsg <= MaxMsgs
    /\ Submit(Cmd("Broadcast", c, clients[c].teamID, clients[c].appID,
                  clients[c].clientType, nextMsg, exclude))
    /\ nextMsg' = nextMsg + 1
    /\ UNCHANGED <<clients, cstate, pumps, unregDone, rooms, send, nProcessed,
                   nBroadcast, regHist, procOrder, droppedAt, lastCmd, lastTo>>

\* the inbound loop ends (read error, socket closed): the connection is
\* Closing and its unregistration is submitted to the Hub
ReadPumpExit(c) ==
    /\ UNCHANGED <<recoverVars, kvVars, treeVars, serveVars>>
    /\ "read" \in pumps[c]
    /\ Submit(Cmd("Unregister", c, 0, 0, "none", 0, {}))
    /\ pumps' = [pumps EXCEPT ![c] = @ \ {"read"}]
    /\ cstate' = [cstate EXCEPT ![c] =
                    Settled("Closing", pumps[c] \ {"read"}, c \in unregDone)]
    /\ UNCHANGED <<clients, unregDone, rooms, send, nextMsg, nProcessed, nBroadcast,
                   regHist, procOrder, droppedAt, lastCmd, lastTo>>

\* the outbound loop ends (write error, queue closed): the connection is Closing
WritePumpExit(c) ==
    /\ UNCHANGED <<recoverVars, kvVars, treeVars, serveVars>>
    /\ "write" \in pumps[c]
    /\ pumps' = [pumps EXCEPT ![c] = @ \ {"write"}]
    /\ cstate' = [cstate EXCEPT ![c] =
                    Settled("Closing", pumps[c] \ {"write"}, c \in unregDone)]
    /\ UNCHANGED <<clients, unregDone, hubChan, rooms, send, nextMsg, nSubmitted,
                   nProcessed, nBroadcast, regHist, procOrder, droppedAt, lastCmd,
                   lastTo>>

\* the outbound loop writes the head of the queue to the socket
WritePumpWrite(c) ==
    /\ UNCHANGED <<recoverVars, kvVars, treeVars, serveVars>>
    /\ "write" \in pumps[c]
    /\ send[c] # <<>>
    /\ send' = [send EXCEPT ![c] = Tail(@)]
    /\ UNCHANGED <<clients, cstate, pumps, unregDone, hubChan, rooms, nextMsg,
                   nSubmitted, nProcessed, nBroadcast, regHist, procOrder, droppedAt,
                   lastCmd, lastTo>>

ReadAny == \E c \in Conns : \E ex \in {{}, {c}} : ReadPumpMessage(c, ex)
ReadExitAny == \E c \in Conns : ReadPumpExit(c)
WriteExitAny == \E c \in Conns : WritePumpExit(c)
WriteAny == \E c \in Conns : WritePumpWrite(c)

\* --------------------------------------------------------------- the Hub
\* mutant: the Hub takes the newest command first
HubNewest == hubChan[Len(hubChan)]

\* the next command of the channel: the oldest one
HubNext == Head(hubChan)

\* what is left on the channel once the Hub has taken a command
HubRest == Tail(hubChan)

HubTake ==
    /\ hubChan' = HubRest
    /\ nProcessed' = nProcessed + 1
    /\ lastCmd' = HubNext

HubRegister(cmd) ==
    /\ rooms' = [rooms EXCEPT
          ![RoomOf(cmd.c, IF cmd.op = "Register" THEN CLIENT_TYPE_TEXT
                          ELSE CLIENT_TYPE_BINARY)] = @ \cup {cmd.c}]
    /\ regHist' = [regHist EXCEPT ![cmd.c] = Append(@, "R")]
    /\ UNCHANGED <<cstate, unregDone, send, droppedAt, procOrder, nBroadcast, lastTo>>

HubUnregister(cmd) ==
    /\ rooms' = [k \in RoomKeys |-> rooms[k] \ {cmd.c}]
    /\ regHist' = [regHist EXCEPT ![cmd.c] = Append(@, "U")]
    /\ unregDone' = unregDone \cup {cmd.c}
    /\ cstate' = [cstate EXCEPT ![cmd.c] = Settled(@, pumps[cmd.c], TRUE)]
    /\ UNCHANGED <<send, droppedAt, procOrder, nBroadcast, lastTo>>

\* mutant: the exclude set is ignored
TargetsAll(keys, exclude) == UNION {rooms[k] : k \in keys}

\* the members of the rooms `keys` a message goes to
Targets(keys, exclude) == (UNION {rooms[k] : k \in keys}) \ exclude

QueueFull(c) == Len(send[c]) >= SendCap

\* the fan-out, blocking or not on a full queue
Fanout(keys, exclude, msg, blocking) ==
    LET to == Targets(keys, exclude)
        slow == {c \in to : QueueFull(c)}
    IN  /\ blocking => slow = {}
        /\ send' = [c \in Conns |->
                      IF c \in to \ slow THEN Append(send[c], msg) ELSE send[c]]
        /\ rooms' = [k \in RoomKeys |-> rooms[k] \ slow]
        /\ unregDone' = unregDone \cup slow
        /\ cstate' = [c \in Conns |->
                      IF c \in slow THEN Settled("Closing", pumps[c], TRUE)
                      ELSE cstate[c]]
        /\ droppedAt' = [c \in Conns |->
                      IF c \in slow THEN nBroadcast + 1 ELSE droppedAt[c]]
        /\ procOrder' = [procOrder EXCEPT ![msg] = nBroadcast + 1]
        /\ nBroadcast' = nBroadcast + 1
        /\ lastTo' = to \ slow
        /\ UNCHANGED regHist

\* mutant: the Hub waits for room in a full queue
DeliverBlocking(keys, exclude, msg) == Fanout(keys, exclude, msg, TRUE)

\* fan a message out: enqueue where there is room, drop the slow consumers
Deliver(keys, exclude, msg) == Fanout(keys, exclude, msg, FALSE)

\* Broadcast(roomKey, message, excludeSet)
HubBroadcast(cmd) == Deliver({<<cmd.team, cmd.app, cmd.class>>}, cmd.exclude, cmd.msg)

\* SendToRoom: a server-originated signal for every client of the room (team, app)
HubSendToRoom(cmd) ==
    Deliver({<<cmd.team, cmd.app, ty>> : ty \in ClientTypes}, {}, cmd.msg)

\* one turn of the Hub's loop: take the oldest command and run it
HubRun ==
    /\ hubChan # <<>>
    /\ HubTake
    /\ CASE HubNext.op \in {"Register", "RegisterBinary"} -> HubRegister(HubNext)
         [] HubNext.op = "Unregister" -> HubUnregister(HubNext)
         [] HubNext.op = "Broadcast" -> HubBroadcast(HubNext)
         [] OTHER -> HubSendToRoom(HubNext)
    /\ UNCHANGED <<clients, pumps, nextMsg, nSubmitted>>
    /\ UNCHANGED <<recoverVars, kvVars, treeVars, serveVars>>

\* ------------------------------------------------------- recoverSnapshot
\* idconvertor.ConvertStringToInt: the integer a path identifier encodes
ConvertStringToInt(s) ==
    CASE s = "ILAfx4p1C7d0" -> 1
      [] s = "ILAex4p1C7d1" -> 1
      [] s = "ILAex4p1C7d2" -> 2
      [] OTHER -> 0

\* the identity collaborator: whether the token is that of a user account
ValidateUserAccount(token) == token \in ValidTokens

\* the permission collaborator: whether the user of the attribute group may
\* perform the action on the unit the group names
CanManage(attributeGroup, action) ==
    /\ action = ACTION_MANAGE_EDIT_APP
    /\ attributeGroup.unitType = UNIT_TYPE_APP
    /\ <<attributeGroup.userAuthToken, attributeGroup.teamID, attributeGroup.unitID>>
           \in grants

\* the access-control service grants or withdraws the capability
GrantCapability(token, teamID, unit) ==
    /\ <<token, teamID, unit>> \notin grants
    /\ grants' = grants \cup {<<token, teamID, unit>>}
    /\ UNCHANGED <<hubVars, lastReq, kvVars, treeVars, serveVars>>

RevokeCapability(token, teamID, unit) ==
    /\ <<token, teamID, unit>> \in grants
    /\ grants' = grants \ {<<token, teamID, unit>>}
    /\ UNCHANGED <<hubVars, lastReq, kvVars, treeVars, serveVars>>

\* hub.SendFeedbackToTargetRoomAllClients: the signal is handed to the Hub for
\* the room (teamID, appID)
SendFeedbackToTargetRoomAllClients(teamID, appID) ==
    /\ nextMsg <= MaxMsgs
    /\ Submit(Cmd("SendToRoom", 0, teamID, appID, "all", nextMsg, {}))
    /\ nextMsg' = nextMsg + 1

\* history: the case a request falls in, from what the collaborators answer
PathOf(method, errInValidate, validated, errInCheckAttr, canManage, errInNewWebSocketMessage) ==
    CASE method = "OPTIONS" -> "preflight"
      [] method # "OPTIONS" /\ errInValidate -> "identity validation error"
      [] method # "OPTIONS" /\ ~errInValidate /\ ~validated -> "identity not validated"
      [] method # "OPTIONS" /\ ~errInValidate /\ validated /\ errInCheckAttr ->
             "permission check error"
      [] method # "OPTIONS" /\ ~errInValidate /\ validated /\ ~errInCheckAttr
             /\ ~canManage -> "permission denied"
      [] method # "OPTIONS" /\ ~errInValidate /\ validated /\ ~errInCheckAttr
             /\ canManage /\ errInNewWebSocketMessage -> "message construction failure"
      [] OTHER -> "success"

\* the handler returns without a call to the Hub
NoFeedback == UNCHANGED <<hubChan, nSubmitted, nextMsg>>

\* the handler, checking the permission when checkPermission is set
RecoverHandler(method, teamID, appID, token, errInValidate, errInCheckAttr, errInNewWebSocketMessage, checkPermission) ==
    LET teamIDInt == ConvertStringToInt(teamID)
        appIDInt == ConvertStringToInt(appID)
        validated == ValidateUserAccount(token)
        attributeGroup == [teamID |-> teamIDInt, userAuthToken |-> token,
                           unitType |-> UNIT_TYPE_APP, unitID |-> DEFAULT_UNIT_ID]
        canManage == CanManage(attributeGroup, ACTION_MANAGE_EDIT_APP)
        req == [n |-> lastReq.n + 1, method |-> method, teamID |-> teamIDInt,
                appID |-> appIDInt, token |-> token,
                path |-> PathOf(method, errInValidate, validated, errInCheckAttr,
                                canManage, errInNewWebSocketMessage),
                held |-> <<token, teamIDInt, appIDInt>> \in grants]
        Respond(status, body, sent) ==
            lastReq' = req @@ [sent |-> sent, status |-> status, body |-> body]
    IN  /\ lastReq.n < MaxReqs
        /\ IF method = "OPTIONS"
           THEN Respond(204, "", FALSE) /\ NoFeedback
           ELSE IF errInValidate \/ ~validated
           THEN Respond(200, "", FALSE) /\ NoFeedback
           ELSE IF checkPermission /\ (errInCheckAttr \/ ~canManage)
           THEN Respond(200, "", FALSE) /\ NoFeedback
           ELSE IF errInNewWebSocketMessage
           THEN Respond(200, OkBody, FALSE) /\ NoFeedback
           ELSE /\ SendFeedbackToTargetRoomAllClients(teamIDInt, appIDInt)
                /\ Respond(200, OkBody, TRUE)
        /\ UNCHANGED <<clients, cstate, pumps, unregDone, rooms, send, nProcessed,
                       nBroadcast, regHist, procOrder, droppedAt, lastCmd, lastTo,
                       grants, kvVars, treeVars, serveVars>>

\* mutant: the refresh is sent without the permission check
RecoverSnapshotUnchecked(method, teamID, appID, token, errInValidate, errInCheckAttr, errInNewWebSocketMessage) ==
    RecoverHandler(method, teamID, appID, token, errInValidate, errInCheckAttr,
                   errInNewWebSocketMessage, FALSE)

\* POST /api/v1/teams/{teamID}/apps/{appID}/recoverSnapshot
RecoverSnapshot(method, teamID, appID, token, errInValidate, errInCheckAttr, errInNewWebSocketMessage) ==
    RecoverHandler(method, teamID, appID, token, errInValidate, errInCheckAttr,
                   errInNewWebSocketMessage, TRUE)

\* a request: a collaborator that the handler does not reach gives no answer
RecoverAny ==
    \E method \in Methods, teamID \in TeamPaths, appID \in AppPaths, token \in Tokens :
      \E errInValidate \in IF method = "OPTIONS" THEN {FALSE} ELSE BOOLEAN :
        \E errInCheckAttr \in
              IF method = "OPTIONS" \/ errInValidate \/ ~ValidateUserAccount(token)
              THEN {FALSE} ELSE BOOLEAN :
          \E errInNewWebSocketMessage \in
                IF method = "OPTIONS" \/ errInValidate \/ ~ValidateUserAccount(token)
                   \/ errInCheckAttr
                THEN {FALSE} ELSE BOOLEAN :
            RecoverSnapshot(method, teamID, appID, token, errInValidate,
                            errInCheckAttr, errInNewWebSocketMessage)

GrantAny ==
    \E token \in ValidTokens, teamID \in TeamIDs, unit \in Units :
        GrantCapability(token, teamID, unit)

RevokeAny ==
    \E token \in ValidTokens, teamID \in TeamIDs, unit \in Units :
        RevokeCapability(token, teamID, unit)

\* the websocket endpoints of every application, text protocol
ServeText ==
    \E c \in Conns, t \in TeamIDs, a \in AppIDs, up \in BOOLEAN :
        ServeWebsocket(c, t, a, CLIENT_TYPE_TEXT, up)

\* ------------------------------------------------------ the KVState store
\* the rows of the table carrying an id
RowsWithID(id) == {i \in DOMAIN kvTable : kvTable[i].id = id}

\* db.Create(row): a zero id is filled in from the serial, an id the row brings
\* is inserted as it is; a duplicate id is an error where the table enforces it
InsertedRow(row) == IF row.id = 0 THEN [row EXCEPT !.id = nextSerial] ELSE row

CreateError(row, dbFails) ==
    IF dbFails THEN "db"
    ELSE IF pkEnforced /\ RowsWithID(InsertedRow(row).id) # {} THEN "duplicate key"
    ELSE "none"

RepoCreate(row, dbFails) ==
    /\ nextSerial' = IF row.id = 0 /\ ~dbFails THEN nextSerial + 1 ELSE nextSerial
    /\ kvTable' = IF CreateError(row, dbFails) = "none"
                  THEN Append(kvTable, InsertedRow(row)) ELSE kvTable

\* db.Delete(&KVState{}, id)
RepoDelete(id) ==
    kvTable' = SelectSeq(kvTable, LAMBDA r : r.id # id)

\* RetrieveAllTypeKVStatesByApp(apprefid, version)
RetrieveAllTypeKVStatesByApp(apprefid, version) ==
    SelectSeq(kvTable, LAMBDA r : r.appRefID = apprefid /\ r.version = version)

\* CreateKVState(version, kvstate): the row is built from the payload
CreateKVState(version, kvstate, dbFails) ==
    /\ nextSerial <= MaxRows
    /\ RepoCreate([id |-> kvstate.ID, stateType |-> kvstate.StateType,
                   appRefID |-> kvstate.AppRefID, version |-> kvstate.Version,
                   key |-> kvstate.Key, value |-> kvstate.Value], dbFails)
    /\ lastCreate' = IF CreateError([id |-> kvstate.ID], dbFails) = "none"
                     THEN [version |-> version, stored |-> kvstate.Version]
                     ELSE lastCreate
    /\ UNCHANGED <<pkEnforced, mainline, rel, retrieved, created, before, injected,
                   concurrent, hubVars, recoverVars, treeVars, serveVars>>

\* DeleteKVState(kvstateID)
DeleteKVState(kvstateID) ==
    /\ RowsWithID(kvstateID) # {}
    /\ RepoDelete(kvstateID)
    /\ UNCHANGED <<nextSerial, pkEnforced, mainline, rel, retrieved, created, before,
                   injected, concurrent, lastCreate, hubVars, recoverVars, treeVars, serveVars>>

\* db.Model(row).Updates(KVState{...}): the rows with the id of `row` take the
\* fields of `row` that are not the zero value
UpdatedRow(r, row) ==
    [id |-> r.id,
     stateType |-> IF row.stateType # 0 THEN row.stateType ELSE r.stateType,
     appRefID |-> IF row.appRefID # 0 THEN row.appRefID ELSE r.appRefID,
     version |-> IF row.version # 0 THEN row.version ELSE r.version,
     key |-> IF row.key # "" THEN row.key ELSE r.key,
     value |-> IF row.value # "" THEN row.value ELSE r.value]

RepoUpdate(row) ==
    kvTable' = IF row.id = 0 THEN kvTable
               ELSE [i \in DOMAIN kvTable |->
                        IF kvTable[i].id = row.id THEN UpdatedRow(kvTable[i], row)
                        ELSE kvTable[i]]

\* UpdateKVState(version, kvstate): the row is built from the payload
UpdateKVState(version, kvstate) ==
    /\ RepoUpdate([id |-> kvstate.ID, stateType |-> kvstate.StateType,
                   appRefID |-> kvstate.AppRefID, version |-> kvstate.Version,
                   key |-> kvstate.Key, value |-> kvstate.Value])
    /\ UNCHANGED <<nextSerial, pkEnforced, mainline, rel, retrieved, created, before,
                   injected, concurrent, lastCreate, hubVars, recoverVars, treeVars,
                   serveVars>>

\* --------------------------------------------------------------- release
InProgress(p) == rel[p].pc \in {"retrieve", "create"}

\* release(appID): the application's mainline version advances and the copy of
\* its state is asked for with the application as it then is
ReleaseApp(p, a) ==
    /\ rel[p].pc = "idle"
    /\ \A q \in Procs : q < p => rel[q].pc # "idle"
    /\ mainline' = [mainline EXCEPT ![a] = @ + 1]
    /\ rel' = [rel EXCEPT ![p] =
                 [pc |-> "retrieve", app |-> [ID |-> a, MainlineVersion |-> mainline[a] + 1],
                  kvstates |-> <<>>, err |-> "none"]]
    /\ before' = [before EXCEPT ![p] = mainline[a]]
    /\ concurrent' = (concurrent \/ \E q \in Procs : InProgress(q) /\ rel[q].app.ID = a)
    /\ UNCHANGED <<kvTable, nextSerial, pkEnforced, retrieved, created, injected,
                   lastCreate, hubVars, recoverVars, treeVars, serveVars>>

\* mutant: the rows keep the version they were read with
KeepVersion(kvstates, app) == kvstates

\* the rows, their version set to the application's mainline version
SetMainlineVersion(kvstates, app) ==
    [serial \in DOMAIN kvstates |->
        [kvstates[serial] EXCEPT !.version = app.MainlineVersion]]

\* ReleaseKVStateByApp, first part: read the edit-version rows of the application
\* and set their version
ReleaseRetrieve(p, dbFails) ==
    /\ rel[p].pc = "retrieve"
    /\ LET kvstates == RetrieveAllTypeKVStatesByApp(rel[p].app.ID, APP_EDIT_VERSION)
       IN  IF dbFails
           THEN /\ rel' = [rel EXCEPT ![p].pc = "done", ![p].err = "db"]
                /\ injected' = injected \cup {p}
                /\ UNCHANGED retrieved
           ELSE /\ rel' = [rel EXCEPT ![p].pc = "create",
                              ![p].kvstates = SetMainlineVersion(kvstates, rel[p].app)]
                /\ retrieved' = [retrieved EXCEPT ![p] = kvstates]
                /\ UNCHANGED injected
    /\ UNCHANGED <<kvTable, nextSerial, pkEnforced, mainline, created, before,
                   concurrent, lastCreate, hubVars, recoverVars, treeVars, serveVars>>

\* ReleaseKVStateByApp, second part: one turn of the loop that creates the rows
ReleaseCreate(p, dbFails) ==
    /\ rel[p].pc = "create"
    /\ IF rel[p].kvstates = <<>>
       THEN /\ ~dbFails
            /\ rel' = [rel EXCEPT ![p].pc = "done"]
            /\ UNCHANGED <<kvTable, nextSerial, created, injected>>
       ELSE LET kvstate == Head(rel[p].kvstates)
                err == CreateError(kvstate, dbFails)
            IN  /\ RepoCreate(kvstate, dbFails)
                /\ injected' = IF dbFails THEN injected \cup {p} ELSE injected
                /\ IF err # "none"
                   THEN /\ rel' = [rel EXCEPT ![p].pc = "done", ![p].err = err]
                        /\ UNCHANGED created
                   ELSE /\ rel' = [rel EXCEPT ![p].kvstates = Tail(@)]
                        /\ created' = [created EXCEPT ![p] = Append(@, InsertedRow(kvstate))]
    /\ UNCHANGED <<pkEnforced, mainline, retrieved, before, concurrent, lastCreate,
                   hubVars,
                   recoverVars, treeVars, serveVars>>

CreateAny ==
    \E a \in KVApps, k \in KVKeys, v \in KVValues, ty \in KVStateTypes, dbFails \in BOOLEAN :
        CreateKVState(APP_EDIT_VERSION,
                      [ID |-> 0, StateType |-> ty, AppRefID |-> a,
                       Version |-> APP_EDIT_VERSION, Key |-> k, Value |-> v], dbFails)

DeleteAny == \E id \in 1..MaxRows : DeleteKVState(id)

\* the payloads a client sends: the version in them is the client's to choose
PayloadVersions == {APP_EDIT_VERSION, 4}

KVStateDtos(ids) ==
    [ID : ids, StateType : KVStateTypes, AppRefID : {1}, Version : PayloadVersions,
     Key : KVKeys, Value : KVValues]

CreatePayloadAny ==
    \E kvstate \in KVStateDtos({0}) : CreateKVState(APP_EDIT_VERSION, kvstate, FALSE)

UpdateAny ==
    \E kvstate \in KVStateDtos(1..MaxRows) : UpdateKVState(APP_EDIT_VERSION, kvstate)

\* the release steps with a store that does not fail of its own
ReleaseRetrieveOk == \E p \in Procs : ReleaseRetrieve(p, FALSE)
ReleaseCreateOk == \E p \in Procs : ReleaseCreate(p, FALSE)

ReleaseAppAny == \E p \in Procs, a \in KVApps : ReleaseApp(p, a)
ReleaseRetrieveAny == \E p \in Procs, dbFails \in BOOLEAN : ReleaseRetrieve(p, dbFails)
ReleaseCreateAny == \E p \in Procs, dbFails \in BOOLEAN : ReleaseCreate(p, dbFails)

\* ---------------------------------------------------- the TreeState store
TreeRowsWithID(id) == {r \in treeTable : r.id = id}

\* the node `id` is `ancestor` or one of its descendants: `ancestor` is met on
\* the way up from `id` along the parent references
RECURSIVE ReachesUp(_, _, _)
ReachesUp(id, ancestor, steps) ==
    \/ id = ancestor
    \/ /\ steps > 0
       /\ \E r \in TreeRowsWithID(id) :
             r.parentNodeRefID # 0 /\ ReachesUp(r.parentNodeRefID, ancestor, steps - 1)

\* db.Model(treestate).Updates(TreeState{...}): the row with the id of
\* treestate takes the fields of treestate that are not the zero value
UpdatedTreeRow(r, treestate) ==
    [id |-> r.id,
     stateType |-> IF treestate.stateType # 0 THEN treestate.stateType ELSE r.stateType,
     parentNodeRefID |-> IF treestate.parentNodeRefID # 0 THEN treestate.parentNodeRefID
                         ELSE r.parentNodeRefID,
     appRefID |-> IF treestate.appRefID # 0 THEN treestate.appRefID ELSE r.appRefID,
     version |-> IF treestate.version # 0 THEN treestate.version ELSE r.version,
     name |-> IF treestate.name # "" THEN treestate.name ELSE r.name]

\* TreeStateRepositoryImpl.Create: the row is inserted as it is given, under
\* the next id of the serial
TreeCreate(treestate) ==
    /\ treeSerial <= MaxNodes
    /\ treeTable' = treeTable \cup {[treestate EXCEPT !.id = treeSerial]}
    /\ treeSerial' = treeSerial + 1
    /\ lastTree' = [op |-> "Create", cyclic |-> FALSE, changed |-> TRUE, err |-> "none"]
    /\ UNCHANGED <<hubVars, recoverVars, kvVars, serveVars>>

\* TreeStateRepositoryImpl.Delete: the rows with the id go
TreeDelete(treestateID) ==
    /\ treeTable' = treeTable \ TreeRowsWithID(treestateID)
    /\ lastTree' = [op |-> "Delete", cyclic |-> FALSE,
                    changed |-> TreeRowsWithID(treestateID) # {}, err |-> "none"]
    /\ UNCHANGED <<treeSerial, hubVars, recoverVars, kvVars, serveVars>>

\* TreeStateRepositoryImpl.Update: without an id there is no row to name and
\* the update is an error; with one, the row takes the fields given
TreeUpdate(treestate) ==
    /\ treeTable' = IF treestate.id = 0 THEN treeTable
                    ELSE {IF r.id = treestate.id THEN UpdatedTreeRow(r, treestate) ELSE r :
                            r \in treeTable}
    /\ lastTree' = [op |-> "Update",
                    cyclic |-> /\ TreeRowsWithID(treestate.id) # {}
                               /\ treestate.parentNodeRefID # 0
                               /\ ReachesUp(treestate.parentNodeRefID, treestate.id, MaxNodes),
                    changed |-> treeTable' # treeTable,
                    err |-> IF treestate.id = 0 THEN "missing where clause" ELSE "none"]
    /\ UNCHANGED <<treeSerial, hubVars, recoverVars, kvVars, serveVars>>

TreeStates(ids) ==
    [id : ids, stateType : TreeStateTypes, parentNodeRefID : {0} \cup NodeIDs,
     appRefID : TreeApps, version : TreeVersions, name : TreeNames]

TreeCreateAny == \E treestate \in TreeStates({0}) : TreeCreate(treestate)
TreeDeleteAny == \E id \in NodeIDs : TreeDelete(id)
TreeUpdateAny == \E treestate \in TreeStates({0} \cup NodeIDs) : TreeUpdate(treestate)

\* ------------------------------------------------------------------ Next
HubNextStep ==
    ServeAny \/ ReadAny \/ ReadExitAny \/ WriteExitAny \/ WriteAny \/ HubRun

RecoverNextStep ==
    ServeText \/ HubRun \/ RecoverAny \/ GrantAny \/ RevokeAny

ReleaseNextStep ==
    CreateAny \/ DeleteAny \/ ReleaseAppAny \/ ReleaseRetrieveAny \/ ReleaseCreateAny


\* where the store plays no part, one store is enough: the one that enforces
\* its primary key
InitEnforced == Init /\ pkEnforced = TRUE

SpecHub == InitEnforced /\ [][HubNextStep]_vars

SpecRecover == InitEnforced /\ [][RecoverNextStep]_vars

SpecRelease == Init /\ [][ReleaseNextStep]_vars

ServeNextStep ==
    \/ ServeUpgradeAny \/ ServeRegisterAny \/ ServeStartWriteAny \/ ServeStartReadAny
    \/ HubRun \/ ReadExitAny \/ WriteExitAny

SpecServe == InitEnforced /\ [][ServeNextStep]_vars

KVNextStep ==
    \/ CreatePayloadAny \/ UpdateAny \/ DeleteAny
    \/ ReleaseAppAny \/ ReleaseRetrieveOk \/ ReleaseCreateOk

SpecKV == Init /\ [][KVNextStep]_vars

TreeNextStep == TreeCreateAny \/ TreeDeleteAny \/ TreeUpdateAny

SpecTree == InitEnforced /\ [][TreeNextStep]_vars

Next ==
    \/ HubNextStep \/ RecoverNextStep \/ ServeNextStep
    \/ ReleaseNextStep \/ KVNextStep \/ TreeNextStep

Spec == Init /\ [][Next]_vars

\* ============================================================ the claims
\* the Hub has just processed a command of kind op
Processed(op) == nProcessed' = nProcessed + 1 /\ lastCmd'.op = op

\* the room a client belongs to: its team, application and client class
ClientRoom(c) == <<clients[c].teamID, clients[c].appID, clients[c].clientType>>

\* a Register of the history that no later Unregister follows
Unmatched(h) ==
    \E i \in DOMAIN h : h[i] = "R" /\ \A j \in DOMAIN h : j > i => h[j] # "U"

Count(q, m) == Cardinality({i \in DOMAIN q : q[i] = m})

C1_Membership ==
    \A c \in Conns : droppedAt[c] = 0 =>
        \A k \in RoomKeys :
            c \in rooms[k] <=> (Unmatched(regHist[c]) /\ k = ClientRoom(c))

C1_Idempotent ==
    (Processed("Unregister") /\ \A k \in RoomKeys : lastCmd'.c \notin rooms[k])
        => rooms' = rooms

\* C1: after any sequence of Register and Unregister commands a connection is a
\* member of a room exactly when that room is its own and its latest Register has
\* not been followed by an Unregister; an Unregister of a connection that is a
\* member of no room is processed and leaves every room as it was.
Thm_C1 == []C1_Membership /\ [][C1_Idempotent]_vars

\* an Unregister was processed for a connection the Hub had already removed,
\* while another connection is a member of its room
Witness_C1 ==
    \E c, d \in Conns :
        /\ droppedAt[c] # 0 /\ regHist[c] = <<"R", "U">>
        /\ d # c /\ \E k \in RoomKeys : d \in rooms[k] /\ k = ClientRoom(d)

C2_Step ==
    Processed("Broadcast") =>
        LET cmd == lastCmd'
            key == <<cmd.team, cmd.app, cmd.class>>
        IN  \A c \in Conns :
              IF c \in rooms[key] /\ c \notin cmd.exclude /\ Len(send[c]) < SendCap
              THEN send'[c] = Append(send[c], cmd.msg) /\ Count(send'[c], cmd.msg) = 1
              ELSE send'[c] = send[c] /\ Count(send'[c], cmd.msg) = 0

\* C2: when the Hub processes Broadcast(roomKey, message, excludeSet), every member
\* of the room that is not excluded and has room in its queue gets exactly one copy
\* appended; every other connection's queue is left as it was, without the message.
Thm_C2 == [][C2_Step]_vars

\* a broadcast reached a member of the room and skipped an excluded member
Witness_C2 ==
    /\ lastCmd.op = "Broadcast"
    /\ lastTo # {}
    /\ \E c \in lastCmd.exclude : c \in rooms[<<lastCmd.team, lastCmd.app, lastCmd.class>>]

C3_Overflow ==
    Processed("Broadcast") =>
        LET cmd == lastCmd'
            elig == rooms[<<cmd.team, cmd.app, cmd.class>>] \ cmd.exclude
        IN  \A c \in elig : Len(send[c]) = SendCap =>
              /\ cstate'[c] \in {"Closing", "Closed"}
              /\ \A k \in RoomKeys : c \notin rooms'[k]
              /\ send'[c] = send[c]
              /\ \A d \in elig : Len(send[d]) < SendCap =>
                     send'[d] = Append(send[d], cmd.msg)

C3_Later ==
    \A c \in Conns : droppedAt[c] # 0 =>
        /\ Len(send'[c]) <= Len(send[c])
        /\ \A k \in RoomKeys : c \notin rooms'[k]

C3_NoBlock == hubChan # <<>> => ENABLED HubRun

\* C3: a broadcast that finds K messages waiting in an eligible member's queue
\* closes that connection and removes it from its room without enqueueing, still
\* reaches every other eligible member; nothing is enqueued to a dropped connection
\* afterwards, and the Hub can always take the next command.
Thm_C3 == []C3_NoBlock /\ [][C3_Overflow /\ C3_Later]_vars

\* the broadcast that dropped a connection with a full queue reached another member
Witness_C3 ==
    \E c \in Conns :
        /\ droppedAt[c] # 0 /\ Len(send[c]) = SendCap
        /\ lastCmd.op = "Broadcast" /\ procOrder[lastCmd.msg] = droppedAt[c]
        /\ lastTo # {}

C4_SubmissionOrder == nProcessed > 0 => lastCmd.seq = nProcessed

C4_QueueOrder ==
    \A c \in Conns : \A i, j \in DOMAIN send[c] :
        i < j => (0 < procOrder[send[c][i]] /\ procOrder[send[c][i]] < procOrder[send[c][j]])

C4_Fifo ==
    \A c \in Conns :
        \/ send'[c] = send[c]
        \/ send[c] # <<>> /\ send'[c] = Tail(send[c])
        \/ \E m \in Msgs :
              /\ send'[c] = Append(send[c], m)
              /\ procOrder'[m] = nBroadcast'
              /\ \A i \in DOMAIN send[c] : procOrder[send[c][i]] < procOrder'[m]

Cex_C5 == (lastReq.n > 0 /\ lastReq.method = "POST") => lastReq.body = OkBody

\* the handler has just answered a request
Answered == lastReq'.n = lastReq.n + 1

C6_Handler ==
    Answered =>
        IF lastReq'.path = "success"
        THEN /\ Len(hubChan') = Len(hubChan) + 1
             /\ \A i \in DOMAIN hubChan : hubChan'[i] = hubChan[i]
             /\ LET cmd == hubChan'[Len(hubChan')]
                IN  /\ cmd.op = "SendToRoom"
                    /\ cmd.team = lastReq'.teamID /\ cmd.app = lastReq'.appID
                    /\ cmd.exclude = {}
        ELSE hubChan' = hubChan /\ nSubmitted' = nSubmitted

C6_Delivery ==
    Processed("SendToRoom") =>
        LET cmd == lastCmd'
            room == UNION {rooms[<<cmd.team, cmd.app, ty>>] : ty \in ClientTypes}
        IN  \A c \in Conns :
              IF c \in room /\ Len(send[c]) < SendCap
              THEN send'[c] = Append(send[c], cmd.msg)
              ELSE send'[c] = send[c]

\* C6: the handler hands a force-refresh for the room (teamID, appID) to the Hub
\* exactly when identity validation and the permission check pass and the message
\* is built, and nothing on any other path; the Hub enqueues it for every client
\* of that room with room in its queue and for no client of another room.
Thm_C6 == [][C6_Handler /\ C6_Delivery]_vars

\* a request succeeded and its signal reached the clients of the room while a
\* client of another application's room got nothing
Witness_C6 ==
    /\ lastReq.sent /\ lastReq.path = "success"
    /\ lastCmd.op = "SendToRoom" /\ lastCmd.app = lastReq.appID
    /\ lastTo # {}
    /\ \E d \in Conns : \E k \in RoomKeys :
          d \in rooms[k] /\ k[2] # lastCmd.app /\ send[d] = <<>>

\* C7: a force-refresh is triggered only by a caller who holds manage-edit-app on
\* the application the request names.
Cex_C7 == lastReq.sent => lastReq.held

\* a release copied every row it read: as many new rows, each with the key, the
\* value, the type and the application of its source, the mainline version,
\* and an id no source row and no other new row has
NewRows == UNION {{<<p, i>> : i \in DOMAIN created[p]} : p \in Procs}

C8_Copied(p) ==
    /\ rel[p].err = "none"
    /\ Len(created[p]) = Len(retrieved[p])
    /\ \A i \in DOMAIN created[p] :
          /\ i \in DOMAIN retrieved[p]
          /\ created[p][i].key = retrieved[p][i].key
          /\ created[p][i].value = retrieved[p][i].value
          /\ created[p][i].stateType = retrieved[p][i].stateType
          /\ created[p][i].appRefID = retrieved[p][i].appRefID
          /\ created[p][i].version = rel[p].app.MainlineVersion
          /\ \A j \in DOMAIN retrieved[p] : created[p][i].id # retrieved[p][j].id
          /\ \A n \in NewRows \ {<<p, i>>} : created[n[1]][n[2]].id # created[p][i].id

\* C8: a release of an application with N edit-version rows that the store does
\* not fail adds exactly N new rows at the mainline version, each with an id of
\* its own and the key and value of its source
Cex_C8 ==
    \A p \in Procs : (rel[p].pc = "done" /\ p \notin injected) => C8_Copied(p)

\* every row a release created carries the mainline version it found plus one
C9_Stamp ==
    \A p \in Procs : \A i \in DOMAIN created[p] :
        created[p][i].version = before[p] + 1

\* of two releases of one application, the rows of the later one carry the
\* greater version
C9_Increasing ==
    \A p, q \in Procs :
        (p < q /\ rel[p].app.ID = rel[q].app.ID) =>
            \A i \in DOMAIN created[p], j \in DOMAIN created[q] :
                created[p][i].version < created[q][j].version

\* C9: the rows a release creates are stamped with the mainline version at its
\* start plus one, and successive releases of an application stamp increasing
\* versions
Thm_C9 == C9_Stamp /\ C9_Increasing

Witness_C9 ==
    /\ rel[1].pc = "done" /\ rel[2].pc = "done"
    /\ rel[1].app.ID = rel[2].app.ID
    /\ before[1] = 3
    /\ created[1] # <<>> /\ created[1][1].version = 4
    /\ created[2] # <<>> /\ created[2][1].version = 5

\* C10: two releases of one application are never in progress together, and of
\* two that were asked for together one succeeds and the other fails with
\* ReleaseConflict
Cex_C10 ==
    /\ \A p, q \in Procs :
          (p # q /\ InProgress(p) /\ InProgress(q)) => rel[p].app.ID # rel[q].app.ID
    /\ (concurrent /\ \A p \in Procs : rel[p].pc = "done") =>
          \E p, q \in Procs :
              p # q /\ rel[p].err = "none" /\ rel[q].err = "ReleaseConflict"

\* the parent references of the stored nodes make a forest: no node is met
\* again on the way up from its parent, and every parent named is a stored
\* node of the same application, version and state type
Forest ==
    \A r \in treeTable :
        r.parentNodeRefID # 0 =>
            /\ ~ReachesUp(r.parentNodeRefID, r.id, MaxNodes)
            /\ \E q \in treeTable :
                  /\ q.id = r.parentNodeRefID
                  /\ q.appRefID = r.appRefID
                  /\ q.version = r.version
                  /\ q.stateType = r.stateType

\* C11: an update that makes a node its own parent or the child of one of its
\* descendants is rejected with StructureViolation and changes nothing, and the
\* stored parent references always make a forest
Cex_C11 ==
    /\ (lastTree.op = "Update" /\ lastTree.cyclic) =>
          (lastTree.err = "StructureViolation" /\ ~lastTree.changed)
    /\ Forest

\* C12: a release that returns an error leaves none of the rows it created in
\* the store
Cex_C12 ==
    \A p \in Procs :
        (rel[p].pc = "done" /\ rel[p].err # "none") =>
            \A i \in DOMAIN created[p] :
                \A j \in DOMAIN kvTable : kvTable[j] # created[p][i]

\* C13: no two stored KVState rows have the same application, version, state
\* type and key
Cex_C13 ==
    \A i, j \in DOMAIN kvTable :
        i # j =>
            <<kvTable[i].appRefID, kvTable[i].version, kvTable[i].stateType, kvTable[i].key>>
                # <<kvTable[j].appRefID, kvTable[j].version, kvTable[j].stateType, kvTable[j].key>>

\* C16: the row CreateKVState(version, kvstate) stores carries the version
\* passed to the operation, whatever version the payload holds
Cex_C16 == lastCreate.stored = lastCreate.version

\* the registrations of a connection: those waiting on the Hub's channels and
\* those the Hub has processed
RegCmds(c) ==
    {i \in DOMAIN hubChan :
        hubChan[i].c = c /\ hubChan[i].op \in {"Register", "RegisterBinary"}}

RegCount(c) ==
    Cardinality(RegCmds(c)) + Len(SelectSeq(regHist[c], LAMBDA h : h = "R"))

ChannelOf(clientType) ==
    IF clientType = CLIENT_TYPE_TEXT THEN "Register" ELSE "RegisterBinary"

C14_Once ==
    \A c \in Conns :
        /\ servePc[c] \in {"registered", "writing", "done"} => RegCount(c) = 1
        /\ servePc[c] \in {"none", "created", "returned"} => RegCount(c) = 0

C14_Before ==
    \A c \in Conns :
        (pumps[c] # {} \/ servePc[c] \in {"writing", "done"}) => RegCount(c) = 1

C14_Class ==
    \A c \in Conns :
        /\ \A i \in RegCmds(c) :
              /\ hubChan[i].op = ChannelOf(clients[c].clientType)
              /\ hubChan[i].team = clients[c].teamID
              /\ hubChan[i].app = clients[c].appID
        /\ \A k \in RoomKeys :
              c \in rooms[k] =>
                  k = <<clients[c].teamID, clients[c].appID, clients[c].clientType>>

\* C14: every connection object ServeWebsocket builds is registered exactly
\* once, on the channel of its client class and for the room of its team and
\* application, and its registration is submitted before either pump starts
Thm_C14 == C14_Once /\ C14_Before /\ C14_Class

Witness_C14 ==
    \E c, d \in Conns :
        /\ clients[c].clientType = CLIENT_TYPE_BINARY
        /\ clients[d].clientType = CLIENT_TYPE_TEXT
        /\ clients[c].appID = clients[d].appID
        /\ servePc[c] = "done" /\ pumps[c] = {"read", "write"}
        /\ servePc[d] = "registered" /\ pumps[d] = {}
        /\ c \in rooms[<<clients[c].teamID, clients[c].appID, CLIENT_TYPE_BINARY>>]
        /\ RegCmds(d) # {}

\* the moves of a connection: a request becomes a connection (Active) when the
\* handshake succeeds and none when it fails
Moves ==
    {<<"None", "Failed">>, <<"None", "Active">>, <<"Active", "Closing">>,
     <<"Closing", "Closed">>}

C15_Moves ==
    \A c \in Conns : cstate'[c] # cstate[c] => <<cstate[c], cstate'[c]>> \in Moves

\* a connection enters Closing when one of its loops ends (read error, write
\* error, explicit close) or when the Hub drops it on a full queue
C15_Causes ==
    \A c \in Conns :
        (cstate[c] = "Active" /\ cstate'[c] = "Closing") =>
            \/ pumps'[c] # pumps[c] /\ pumps'[c] \subseteq pumps[c]
            \/ droppedAt[c] = 0 /\ droppedAt'[c] > 0 /\ QueueFull(c)

C15_Closed ==
    \A c \in Conns :
        cstate[c] = "Closed" =>
            /\ pumps[c] = {}
            /\ c \in unregDone
            /\ \A k \in RoomKeys : c \notin rooms[k]

\* C15: a connection moves only forward along Connecting, Active, Closing,
\* Closed; it enters Closing on the end of a loop or on a full queue; it is
\* Closed only once both loops have exited and the Hub has processed its
\* removal, and then it is in no room
Thm_C15 == []C15_Closed /\ [][C15_Moves /\ C15_Causes]_vars

Witness_C15 ==
    \E c, d \in Conns :
        /\ cstate[c] = "Closed" /\ droppedAt[c] > 0
        /\ cstate[d] = "Closed" /\ droppedAt[d] = 0

====
